---- MODULE Spec2Model ----
(***************************************************************************)
(* Model of the art-portfolio pipeline: generate_captions.py (Caption      *)
(* Stage), generate_tags_from_captions.py (Metadata Enrichment Stage) and  *)
(* build_art_site.py (Site Assembly).                                      *)
(*                                                                         *)
(* Text is a sequence of tokens.  A token is one character ("T", " ",      *)
(* "\\", ...) or a fixed literal of the source that is never split (a      *)
(* marker such as "<!-- START HERO -->", a piece of an HTML template, a    *)
(* file name).  LF is the line feed.                                       *)
(***************************************************************************)
EXTENDS Integers, Sequences, FiniteSets, TLC

VARIABLES
    \* ---- the NAS share: the system of record
    nas_exists,     \* [kind -> BOOLEAN]: the collection folder exists
    nas_images,     \* [kind -> set of image file names]
    txt,            \* [stem -> caption sidecar <stem>.txt]
    json,           \* [stem -> metadata sidecar <stem>.json]
    \* ---- the stage scripts (Spec, SpecPipeline)
    stage,          \* "idle", or the script that runs: "caption", "tags"
    stage_pc,       \* "main" before a folder, "loop" in process_folder, "end"
    folder,         \* the folder main is at
    budget,         \* main's budget
    to_process,     \* process_folder's batch
    idx,            \* how many images of the batch the loop has processed
    run_start,      \* the budget and the sidecars when the script started
    pending,        \* [kind -> length of the folder's listing, -1 if not listed]
    tried,          \* the images attempted in this run, in order
    failed,         \* the images whose attempt failed in this run
    calls,          \* the service calls sent in this run
    last,           \* how the latest attempt ended
    live,           \* [B, down]: the budget of every run and the images the
                    \* service fails on, for the repeated runs of SpecLive
    pipe,           \* the pipeline run: its phase and each script's budget and calls
    \* ---- build_art_site.py main (SpecSite)
    site_pc,        \* position in main
    site_exit,      \* [code, err, doc]: how the process ended
    local,          \* [kind -> set of file names in images/<kind>]
    docs,           \* [document -> the HTML file]
    backups,        \* [document -> its .backup.html file]
    site_mem,       \* main's local variables
    site_start,     \* the local folders, documents and backups when main started
    \* ---- replace_section applied to drawn inputs (SpecReplace)
    rs_in,          \* [prefix, old, suffix, new]: the drawn input
    rs_out,         \* RsNone before the call, afterwards the outcome record
    \* ---- the pure functions applied to drawn inputs (SpecPure)
    fn_in,          \* [fn, ...]: the function and its drawn arguments
    fn_out          \* [done, value]: the result once the function was applied

nasVars == <<nas_exists, nas_images, txt, json>>
stageVars == <<stage, stage_pc, folder, budget, to_process, idx, run_start, pending,
               tried, failed, calls, last, live>>
siteVars == <<site_pc, site_exit, local, docs, backups, site_mem, site_start>>
rsVars == <<rs_in, rs_out>>
pureVars == <<fn_in, fn_out>>
vars == <<nas_exists, nas_images, txt, json,
          stage, stage_pc, folder, budget, to_process, idx, run_start, pending,
          tried, failed, calls, last, live, pipe,
          site_pc, site_exit, local, docs, backups, site_mem, site_start,
          rs_in, rs_out, fn_in, fn_out>>

(***************************************************************************)
(* Text helpers                                                            *)
(***************************************************************************)
LF == "\n"
\* U+2014, the em dash of the caption format
EMDASH == "<U+2014>"
BS == "\\"

RECURSIVE Concat(_)
\* the concatenation of a sequence of texts
Concat(ss) == IF ss = <<>> THEN <<>> ELSE Head(ss) \o Concat(Tail(ss))

\* all texts over alphabet A of length at most n
SeqsUpTo(A, n) == UNION {[1..k -> A] : k \in 0..n}

\* text t has the text m at position i
OccursAt(t, m, i) ==
    /\ i >= 1
    /\ i + Len(m) - 1 <= Len(t)
    /\ \A k \in 1..Len(m) : t[i + k - 1] = m[k]

Occurrences(t, m) == {i \in 1..Len(t) : OccursAt(t, m, i)}

(***************************************************************************)
(* build_art_site.py: markers and replace_section                          *)
(***************************************************************************)
MARKERS_HOME ==
    [hero           |-> << <<"<!-- START HERO -->">>, <<"<!-- END HERO -->">> >>,
     featured       |-> << <<"<!-- START FEATURED -->">>, <<"<!-- END FEATURED -->">> >>,
     sketch_preview |-> << <<"<!-- START HOME_SKETCHES -->">>,
                           <<"<!-- END HOME_SKETCHES -->">> >>]

MARKERS_GALLERY ==
    [gallery_finished |-> << <<"<!-- START GALLERY_FINISHED -->">>,
                             <<"<!-- END GALLERY_FINISHED -->">> >>]

MARKERS_SKETCHBOOK ==
    [gallery_sketchbook |-> << <<"<!-- START GALLERY_SKETCHBOOK -->">>,
                               <<"<!-- END GALLERY_SKETCHBOOK -->">> >>]

\* The replacement handed to pattern.subn is a template of the re module:
\* a backslash starts an escape.  The escapes of re's template parser:
\* \n \\ (and \a \b \f \r \t \v) stand for one character, a backslash before
\* any other ASCII letter is the error "bad escape", a backslash before a
\* digit is a group reference (the pattern has no group: the error "invalid
\* group reference"; \0 is an octal escape), and a backslash before anything
\* else stays as it is.
TemplateLetters == {"T", "c", "d", "x"}
TemplateDigits == {"1", "2", "3", "4", "5", "6", "7", "8", "9"}
TemplateEscapes == {"n", BS, "a", "b", "f", "r", "t", "v"}

EscapeChar(c) ==
    CASE c = "n" -> LF
      [] c = BS  -> BS
      [] c = "a" -> "<BEL>"
      [] c = "b" -> "<BS>"
      [] c = "f" -> "<FF>"
      [] c = "r" -> "<CR>"
      [] c = "t" -> "<TAB>"
      [] c = "v" -> "<VT>"

RECURSIVE TemplateOK(_)
\* re's template parser accepts the replacement text
TemplateOK(t) ==
    IF t = <<>> THEN TRUE
    ELSE IF Head(t) # BS THEN TemplateOK(Tail(t))
    ELSE IF Len(t) = 1 THEN FALSE                  \* bad escape (end of pattern)
    ELSE IF t[2] \in TemplateEscapes THEN TemplateOK(Tail(Tail(t)))
    ELSE IF t[2] \in TemplateLetters \cup TemplateDigits THEN FALSE
    ELSE TemplateOK(Tail(Tail(t)))

RECURSIVE TemplateExpand(_)
\* the text an accepted template stands for
TemplateExpand(t) ==
    IF t = <<>> THEN <<>>
    ELSE IF Head(t) # BS \/ Len(t) = 1 THEN <<Head(t)>> \o TemplateExpand(Tail(t))
    ELSE IF t[2] \in TemplateEscapes
         THEN <<EscapeChar(t[2])>> \o TemplateExpand(Tail(Tail(t)))
    ELSE <<t[1], t[2]>> \o TemplateExpand(Tail(Tail(t)))

\* The leftmost match of  escape(start) .*? escape(end)  with DOTALL:
\* the first occurrence of start that has an occurrence of end after it,
\* up to the first such occurrence of end.
MatchStarts(html, start_marker, end_marker) ==
    {i \in Occurrences(html, start_marker) :
        \E j \in Occurrences(html, end_marker) : j >= i + Len(start_marker)}

Min(S) == CHOOSE x \in S : \A y \in S : x <= y

MatchStart(html, start_marker, end_marker) ==
    Min(MatchStarts(html, start_marker, end_marker))

\* mutant: the match is greedy, up to the last end marker
MatchEndGreedy(html, start_marker, end_marker) ==
    LET ends == Occurrences(html, end_marker)
    IN  (CHOOSE j \in ends : \A k \in ends : k <= j) + Len(end_marker) - 1

MatchEnd(html, start_marker, end_marker) ==
    LET i == MatchStart(html, start_marker, end_marker)
    IN  Min({j \in Occurrences(html, end_marker) : j >= i + Len(start_marker)})
        + Len(end_marker) - 1

\* replace_section(html, start_marker, end_marker, new_content): the new
\* document, or the exception raised.
replace_section(html, start_marker, end_marker, new_content) ==
    LET replacement == start_marker \o <<LF>> \o new_content \o <<LF>> \o end_marker
    IN  IF ~TemplateOK(replacement)
        THEN [ok |-> FALSE, err |-> "re.error", html |-> <<>>]
        ELSE IF MatchStarts(html, start_marker, end_marker) = {}
        THEN [ok |-> FALSE, err |-> "ValueError", html |-> <<>>]
        ELSE LET i == MatchStart(html, start_marker, end_marker)
                 j == MatchEnd(html, start_marker, end_marker)
             IN  [ok |-> TRUE, err |-> "",
                  html |-> SubSeq(html, 1, i - 1) \o TemplateExpand(replacement)
                           \o SubSeq(html, j + 1, Len(html))]

(***************************************************************************)
(* The NAS share: images and their sidecars                                *)
(***************************************************************************)
Kinds == {"finished", "sketchbook"}

AllImages == {"a_b.jpg", "a_b.png", "c.jpg", "s.jpg", "t.jpg"}

Stems == {"a_b", "c", "s", "t"}

\* Path.stem of a file name, and its characters
ImageStem(img) ==
    CASE img \in {"a_b.jpg", "a_b.png"} -> "a_b"
      [] img = "c.jpg" -> "c"
      [] img = "s.jpg" -> "s"
      [] img = "t.jpg" -> "t"

StemText(stem) ==
    CASE stem = "a_b" -> <<"a", "_", "b">>
      [] stem = "c" -> <<"c">>
      [] stem = "s" -> <<"s">>
      [] stem = "t" -> <<"t">>

\* the collection folder a file lies in
StemKind(stem) == IF stem \in {"a_b", "c"} THEN "finished" ELSE "sketchbook"

ImageKind(img) == StemKind(ImageStem(img))

ImagesOf(kind) == {img \in AllImages : ImageKind(img) = kind}

\* st_mtime of an image: a larger number is newer
Mtime(img) ==
    CASE img = "a_b.jpg" -> 5
      [] img = "a_b.png" -> 4
      [] img = "c.jpg" -> 3
      [] img = "s.jpg" -> 2
      [] img = "t.jpg" -> 1

\* a sidecar file: absent, text, or bytes that are not UTF-8
NoFile == [state |-> "absent", text |-> <<>>]
TextFile(t) == [state |-> "text", text |-> t]
Undecodable == [state |-> "undecodable", text |-> <<>>]

Whitespace == {" ", LF, "<TAB>", "<CR>"}

RECURSIVE LStrip(_)
LStrip(t) == IF t # <<>> /\ Head(t) \in Whitespace THEN LStrip(Tail(t)) ELSE t

RECURSIVE RStrip(_)
RStrip(t) ==
    IF t # <<>> /\ t[Len(t)] \in Whitespace THEN RStrip(SubSeq(t, 1, Len(t) - 1)) ELSE t

\* str.strip()
Strip(t) == RStrip(LStrip(t))

\* caption_file.read_text(encoding="utf-8").strip(), "" when the read raises
ReadCaptionText(f) == IF f.state = "text" THEN Strip(f.text) ELSE <<>>

RECURSIVE SortOldestFirst(_)
\* mutant: the listing is sorted oldest first
SortOldestFirst(S) ==
    IF S = {} THEN <<>>
    ELSE LET oldest == CHOOSE x \in S : \A y \in S : Mtime(x) <= Mtime(y)
         IN  <<oldest>> \o SortOldestFirst(S \ {oldest})

RECURSIVE SortNewestFirst(_)
\* list.sort(key=st_mtime, reverse=True)
SortNewestFirst(S) ==
    IF S = {} THEN <<>>
    ELSE LET newest == CHOOSE x \in S : \A y \in S : Mtime(y) <= Mtime(x)
         IN  <<newest>> \o SortNewestFirst(S \ {newest})

Lowers == <<"a", "b", "c", "d", "e", "f", "g", "h", "i", "j", "k", "l", "m",
            "n", "o", "p", "q", "r", "s", "t", "u", "v", "w", "x", "y", "z">>
Uppers == <<"A", "B", "C", "D", "E", "F", "G", "H", "I", "J", "K", "L", "M",
            "N", "O", "P", "Q", "R", "S", "T", "U", "V", "W", "X", "Y", "Z">>

\* str.upper() and str.lower() of one character (ASCII letters; every other
\* token of the model has no case)
UpperChar(c) ==
    IF \E k \in 1..Len(Lowers) : Lowers[k] = c
    THEN Uppers[CHOOSE k \in 1..Len(Lowers) : Lowers[k] = c]
    ELSE c

LowerChar(c) ==
    IF \E k \in 1..Len(Uppers) : Uppers[k] = c
    THEN Lowers[CHOOSE k \in 1..Len(Uppers) : Uppers[k] = c]
    ELSE c

IsLetter(c) == UpperChar(c) # c \/ LowerChar(c) # c

RECURSIVE TitleFrom(_, _)
TitleFrom(t, prevCased) ==
    IF t = <<>> THEN <<>>
    ELSE <<IF prevCased THEN LowerChar(Head(t)) ELSE UpperChar(Head(t))>>
         \o TitleFrom(Tail(t), IsLetter(Head(t)))

\* str.title()
TitleCase(t) == TitleFrom(t, FALSE)

\* str.replace(old, new) for one-character old and new
ReplaceChar(t, old, new) == [k \in 1..Len(t) |-> IF t[k] = old THEN new ELSE t[k]]

(***************************************************************************)
(* build_art_site.py: listing, mirroring and the fragment builders         *)
(***************************************************************************)
NUM_FEATURED == 3

list_images_with_captions(kind) ==
    IF ~nas_exists[kind] THEN <<>>
    ELSE LET images == SortNewestFirst(nas_images[kind])
         IN  [k \in 1..Len(images) |->
                [name |-> images[k],
                 caption |-> ReadCaptionText(txt[ImageStem(images[k])])]]

\* copy_images: the destination is cleared, then holds the copies
copy_images_dest(src_items) == {src_items[k].name : k \in 1..Len(src_items)}

EscapeHtmlChar(c) ==
    CASE c = "&" -> "&amp;"
      [] c = "<" -> "&lt;"
      [] c = ">" -> "&gt;"
      [] c = "\"" -> "&quot;"
      [] OTHER -> c

escape_html(text) == [k \in 1..Len(text) |-> EscapeHtmlChar(text[k])]

\* caption.split(sep)[0]: the text before the first sep
BeforeFirst(t, sep) ==
    IF \E k \in 1..Len(t) : t[k] = sep
    THEN SubSeq(t, 1, Min({k \in 1..Len(t) : t[k] = sep}) - 1)
    ELSE t

FileTitle(file_name) == TitleCase(ReplaceChar(StemText(ImageStem(file_name)), "_", " "))

_derive_title_and_body(file_name, caption) ==
    IF caption # <<>>
    THEN LET raw_title == Strip(BeforeFirst(caption, EMDASH))
         IN  [title |-> escape_html(IF raw_title # <<>> THEN raw_title
                                    ELSE FileTitle(file_name)),
              body |-> escape_html(caption)]
    ELSE [title |-> escape_html(FileTitle(file_name)),
          body |-> escape_html(<<"New artwork from Myles.">>)]

\* a metadata sidecar: absent, not JSON, JSON that is no object, or an object
NoJson == [state |-> "absent", file |-> "", title |-> <<>>, caption |-> <<>>,
           tags |-> <<>>, characters |-> <<>>, kind |-> <<>>, slug |-> <<>>]
MalformedJson == [NoJson EXCEPT !.state = "malformed"]
NonDictJson == [NoJson EXCEPT !.state = "nondict"]
DictJson(slug, tags, characters, kind) ==
    [NoJson EXCEPT !.state = "dict", !.slug = slug, !.tags = tags,
                   !.characters = characters, !.kind = kind]

\* [str(t).strip() for t in tags if str(t).strip()]
CleanList(xs) ==
    LET stripped == [k \in 1..Len(xs) |-> Strip(xs[k])]
    IN  SelectSeq(stripped, LAMBDA x : x # <<>>)

get_metadata_for_image_nokind(file_name, kind) ==
    LET j == json[ImageStem(file_name)]
    IN  IF j.state # "dict"
        THEN [slug |-> <<>>, tags |-> <<>>, characters |-> <<>>, kind |-> <<>>]
        ELSE [slug |-> Strip(j.slug),
              tags |-> CleanList(j.tags),
              characters |-> CleanList(j.characters),
              kind |-> IF Strip(j.kind) # <<>> THEN Strip(j.kind) ELSE <<kind>>]

\* get_metadata_for_image: the sidecar is looked up in the NAS folder of kind
get_metadata_for_image(file_name, kind) ==
    LET j == json[ImageStem(file_name)]
    IN  IF j.state # "dict"
        THEN [slug |-> <<>>, tags |-> <<>>, characters |-> <<>>, kind |-> <<kind>>]
        ELSE [slug |-> Strip(j.slug),
              tags |-> CleanList(j.tags),
              characters |-> CleanList(j.characters),
              kind |-> IF Strip(j.kind) # <<>> THEN Strip(j.kind) ELSE <<kind>>]

\* data.get on JSON that is no object raises AttributeError
metadata_raises(items) ==
    \E k \in 1..Len(items) : json[ImageStem(items[k].name)].state = "nondict"

RECURSIVE Join(_, _)
\* sep.join(parts)
Join(parts, sep) ==
    IF parts = <<>> THEN <<>>
    ELSE IF Len(parts) = 1 THEN parts[1]
    ELSE parts[1] \o sep \o Join(Tail(parts), sep)

build_data_attributes(meta) ==
    (IF meta.slug # <<>>
     THEN <<" data-slug=\"">> \o escape_html(meta.slug) \o <<"\"">> ELSE <<>>)
    \o (IF meta.kind # <<>>
        THEN <<" data-kind=\"">> \o escape_html(meta.kind) \o <<"\"">> ELSE <<>>)
    \o (IF meta.tags # <<>>
        THEN <<" data-tags=\"">> \o escape_html(Join(meta.tags, <<",">>)) \o <<"\"">>
        ELSE <<>>)
    \o (IF meta.characters # <<>>
        THEN <<" data-characters=\"">> \o escape_html(Join(meta.characters, <<",">>))
             \o <<"\"">>
        ELSE <<>>)

HeroOpen == "<div class=\"hero-image\">\n  <img src=\"images/finished/"
HeroClose == " />\n</div>"

build_hero_html(file_name, caption) ==
    LET alt == IF caption # <<>> THEN escape_html(caption) ELSE FileTitle(file_name)
        data_attrs == build_data_attributes(get_metadata_for_image(file_name, "finished"))
    IN  <<HeroOpen, file_name, "\" alt=\"">> \o alt \o <<"\" class=\"hero-art\"">>
        \o data_attrs \o <<HeroClose>>

CardClose == "</p>\n    </div>\n  </article>"

\* one card of build_featured_html (open = the article tag) or build_gallery_html
Card(open, subfolder, kind, item) ==
    LET tb == _derive_title_and_body(item.name, item.caption)
        data_attrs == build_data_attributes(get_metadata_for_image(item.name, kind))
    IN  <<open>> \o data_attrs
        \o <<">\n    <div class=\"card-image\">\n      <img src=\"images/", subfolder, "/",
             item.name, "\" alt=\"">>
        \o tb.title
        \o <<"\" />\n    </div>\n    <div class=\"card-body\">\n      <h3>">>
        \o tb.title \o <<"</h3>\n      <p>">> \o tb.body \o <<CardClose>>

FeaturedOpen == "  <article class=\"card\""
GalleryOpen == "  <article class=\"card gallery-card\""

build_featured_html(items) ==
    IF items = <<>> THEN <<"<div class=\"card-grid\"></div>">>
    ELSE <<"<div class=\"card-grid\">\n">>
         \o Join([k \in 1..Len(items) |->
                    Card(FeaturedOpen, "finished", "finished", items[k])], <<LF, LF>>)
         \o <<"\n</div>">>

build_gallery_html(items, subfolder) ==
    IF items = <<>> THEN <<"<div class=\"card-grid gallery-grid\"></div>">>
    ELSE <<"<div class=\"card-grid gallery-grid\">\n">>
         \o Join([k \in 1..Len(items) |->
                    Card(GalleryOpen, subfolder, subfolder, items[k])], <<LF, LF>>)
         \o <<"\n</div>">>

SketchOpen == "  <div class=\"sketch\""
SketchClose == "\" />\n  </div>"
SketchPlaceholder == "  <div class=\"sketch placeholder\"><span>Future sketch</span></div>"

SketchCell(item) ==
    LET tb == _derive_title_and_body(item.name, item.caption)
        data_attrs == build_data_attributes(get_metadata_for_image(item.name, "sketchbook"))
    IN  <<SketchOpen>> \o data_attrs
        \o <<">\n    <img src=\"images/sketchbook/", item.name, "\" alt=\"">>
        \o tb.title \o <<SketchClose>>

\* mutant: the grid is not filled up
KeepCells(cells) == cells

RECURSIVE FillPlaceholders(_)
\* while len(cells) < 4: cells.append(placeholder)
FillPlaceholders(cells) ==
    IF Len(cells) < 4 THEN FillPlaceholders(Append(cells, <<SketchPlaceholder>>))
    ELSE cells

build_home_sketches_html(items) ==
    LET max_sketches == 4
        used == SubSeq(items, 1, IF Len(items) < max_sketches THEN Len(items)
                                 ELSE max_sketches)
        cells == FillPlaceholders([k \in 1..Len(used) |-> SketchCell(used[k])])
    IN  <<"<div class=\"sketch-preview-grid\">\n">> \o Join(cells, <<LF>>)
        \o <<"\n</div>">>

\* replace_section not called yet
RsNone == [ok |-> FALSE, err |-> "not called", html |-> <<>>]

\* no pure function applied
FnNone == [done |-> FALSE, value |-> <<>>]

InitRsIdle ==
    /\ rs_in = [prefix |-> <<>>, old |-> <<>>, suffix |-> <<>>, new |-> <<>>]
    /\ rs_out = RsNone
    /\ fn_in = [fn |-> "none"]
    /\ fn_out = FnNone

(***************************************************************************)
(* generate_captions.py                                                    *)
(***************************************************************************)
CaptionSeparator == <<" ", EMDASH, " ">>

\* a caption sidecar counts as a caption: it exists and read_text().strip()
\* is not empty (a read that raises counts as empty)
HasCaption(f) == f.state # "absent" /\ ReadCaptionText(f) # <<>>

list_images_without_captions(kind) ==
    IF ~nas_exists[kind] THEN <<>>
    ELSE SortNewestFirst({img \in nas_images[kind] : ~HasCaption(txt[ImageStem(img)])})

\* image_path.stem.replace("_", " ").replace("-", " ").title()
StemTitle(stem) ==
    TitleCase(ReplaceChar(ReplaceChar(StemText(stem), "_", " "), "-", " "))

\* lines 195-203 of call_openai_caption: the fields of the parsed response
caption_fields(img, data) ==
    LET title0 == Strip(data.title)
        caption0 == Strip(data.caption)
        title == IF title0 = <<>> THEN StemTitle(ImageStem(img)) ELSE title0
        caption == IF caption0 = <<>>
                   THEN title \o <<" ", EMDASH, " ", "illustration by Myles.">>
                   ELSE caption0
    IN  [title |-> title, caption |-> caption]

\* write_caption_file: the text written to <stem>.txt
caption_file_text(title, caption) == title \o CaptionSeparator \o caption

\* what one call_openai_caption can come to: the image cannot be read (no
\* request is sent), the request fails, the answer holds no JSON, or the
\* answer is parsed
CaptionOutcomes ==
    {[kind |-> "image_unreadable", called |-> FALSE, title |-> <<>>, caption |-> <<>>],
     [kind |-> "service_error", called |-> TRUE, title |-> <<>>, caption |-> <<>>],
     [kind |-> "unparseable", called |-> TRUE, title |-> <<>>, caption |-> <<>>],
     [kind |-> "ok", called |-> TRUE, title |-> <<"T">>, caption |-> <<"c">>],
     [kind |-> "ok", called |-> TRUE, title |-> <<" ">>, caption |-> <<>>]}

(***************************************************************************)
(* generate_tags_from_captions.py                                          *)
(***************************************************************************)
Digits == {"0", "1", "2", "3", "4", "5", "6", "7", "8", "9"}

LowerText(t) == [k \in 1..Len(t) |-> LowerChar(t[k])]

IsSlugChar(c) == c \in Digits \/ \E k \in 1..Len(Lowers) : Lowers[k] = c

RECURSIVE SubRuns(_, _)
\* re.sub(r"[^a-z0-9]+", "-", slug): inRun says the previous character was
\* replaced already
SubRuns(t, inRun) ==
    IF t = <<>> THEN <<>>
    ELSE IF IsSlugChar(Head(t)) THEN <<Head(t)>> \o SubRuns(Tail(t), FALSE)
    ELSE IF inRun THEN SubRuns(Tail(t), TRUE)
    ELSE <<"-">> \o SubRuns(Tail(t), TRUE)

RECURSIVE CollapseHyphens(_)
\* re.sub(r"-{2,}", "-", slug)
CollapseHyphens(t) ==
    IF Len(t) < 2 THEN t
    ELSE IF t[1] = "-" /\ t[2] = "-" THEN CollapseHyphens(Tail(t))
    ELSE <<t[1]>> \o CollapseHyphens(Tail(t))

\* mutant: hyphens at the ends are kept
KeepHyphens(t) == t

RECURSIVE StripHyphens(_)
\* slug.strip("-")
StripHyphens(t) ==
    IF t # <<>> /\ Head(t) = "-" THEN StripHyphens(Tail(t))
    ELSE IF t # <<>> /\ t[Len(t)] = "-" THEN StripHyphens(SubSeq(t, 1, Len(t) - 1))
    ELSE t

make_slug(title) == StripHyphens(CollapseHyphens(SubRuns(LowerText(title), FALSE)))

\* mutant: an image is listed whether or not it has a caption
list_images_without_json(kind) ==
    IF ~nas_exists[kind] THEN <<>>
    ELSE SortNewestFirst({img \in nas_images[kind] :
            json[ImageStem(img)].state = "absent"})

\* mutant: an image is listed whether or not it has a metadata sidecar
list_captioned_images_any_json(kind) ==
    IF ~nas_exists[kind] THEN <<>>
    ELSE SortNewestFirst({img \in nas_images[kind] : HasCaption(txt[ImageStem(img)])})

list_captioned_images_without_json(kind) ==
    IF ~nas_exists[kind] THEN <<>>
    ELSE SortNewestFirst({img \in nas_images[kind] :
            /\ HasCaption(txt[ImageStem(img)])
            /\ json[ImageStem(img)].state = "absent"})

\* raw.split(separator, 1): the text before and after the first separator
parse_caption_file(stem, f) ==
    LET raw == Strip(f.text)
        at == Occurrences(raw, CaptionSeparator)
        title0 == IF at # {} THEN Strip(SubSeq(raw, 1, Min(at) - 1))
                  ELSE StemTitle(stem)
        caption0 == IF at # {}
                    THEN Strip(SubSeq(raw, Min(at) + Len(CaptionSeparator), Len(raw)))
                    ELSE raw
        title == IF title0 = <<>> THEN StemTitle(stem) ELSE title0
        caption == IF caption0 = <<>>
                   THEN title \o <<" ", EMDASH, " ", "illustration by Myles.">>
                   ELSE caption0
    IN  [title |-> title, caption |-> caption]

\* an entry of a JSON list: a string, or something else (a number, null)
Str(t) == [is_str |-> TRUE, text |-> t]
NonStr == [is_str |-> FALSE, text |-> <<>>]

RECURSIVE CleanOnly(_, _)
\* mutant: entries are cleaned but an entry seen before is kept
CleanOnly(raw, seen) ==
    IF raw = <<>> THEN <<>>
    ELSE LET t == Head(raw)
             tag == Strip(t.text)
         IN  IF ~t.is_str \/ tag = <<>>
             THEN CleanOnly(Tail(raw), seen)
             ELSE <<tag>> \o CleanOnly(Tail(raw), seen)

RECURSIVE CleanDedupe(_, _)
\* lines 264-276 and 278-289: strip, drop non-strings and empties, keep the
\* first of the entries that are equal after lower()
CleanDedupe(raw, seen) ==
    IF raw = <<>> THEN <<>>
    ELSE LET t == Head(raw)
             tag == Strip(t.text)
             low == LowerText(tag)
         IN  IF ~t.is_str \/ tag = <<>> \/ low \in seen
             THEN CleanDedupe(Tail(raw), seen)
             ELSE <<tag>> \o CleanDedupe(Tail(raw), seen \cup {low})

FirstN(xs, n) == SubSeq(xs, 1, IF Len(xs) < n THEN Len(xs) ELSE n)

\* lines 255-291 of call_openai_tags_and_characters
tags_and_characters(data, max_tags) ==
    [tags |-> FirstN(CleanDedupe(data.tags, {}), max_tags),
     characters |-> IF data.chars_is_list THEN CleanDedupe(data.characters, {})
                    ELSE <<>>]

\* what one call_openai_tags_and_characters (after parse_caption_file) can
\* come to
TagOutcomes ==
    {[kind |-> "caption_unreadable", called |-> FALSE, tags |-> <<>>,
      chars_is_list |-> TRUE, characters |-> <<>>],
     [kind |-> "service_error", called |-> TRUE, tags |-> <<>>,
      chars_is_list |-> TRUE, characters |-> <<>>],
     [kind |-> "unparseable", called |-> TRUE, tags |-> <<>>,
      chars_is_list |-> TRUE, characters |-> <<>>],
     [kind |-> "tags_not_a_list", called |-> TRUE, tags |-> <<>>,
      chars_is_list |-> TRUE, characters |-> <<>>],
     [kind |-> "ok", called |-> TRUE,
      tags |-> <<Str(<<"f">>), NonStr, Str(<<"F", " ">>), Str(<<"c">>)>>,
      chars_is_list |-> FALSE, characters |-> <<>>]}

\* write_json_sidecar: the record written to <stem>.json
json_sidecar(img, title, caption, tags, characters, kind) ==
    [state |-> "dict", file |-> img, title |-> title, caption |-> caption,
     tags |-> tags, characters |-> characters, kind |-> <<kind>>,
     slug |-> make_slug(title)]

(***************************************************************************)
(* The two stage scripts: main and process_folder, one action per step     *)
(***************************************************************************)
MaxBudget == 3      \* largest MAX_IMAGES_PER_RUN drawn for a run

\* no repeated runs
NoLive == [B |-> 0, down |-> {}]

NoRun == [B |-> 0, txt |-> [s \in Stems |-> NoFile], json |-> [s \in Stems |-> NoJson]]

\* main, lines 252-253 (captions) and 387-388 (tags): budget = MAX_IMAGES_PER_RUN
StageStart(script, B) ==
    /\ stage = "idle"
    /\ stage' = script
    /\ stage_pc' = "main"
    /\ folder' = "finished"
    /\ budget' = B
    /\ to_process' = <<>>
    /\ idx' = 0
    /\ run_start' = [B |-> B, txt |-> txt, json |-> json]
    /\ pending' = [k \in Kinds |-> -1]
    /\ tried' = <<>>
    /\ failed' = {}
    /\ calls' = 0
    /\ last' = "none"
    /\ UNCHANGED nasVars

\* main goes on to the next folder, or to its last line
NextFolder ==
    /\ folder' = IF folder = "finished" THEN "sketchbook" ELSE "none"
    /\ stage_pc' = IF folder = "finished" THEN "main" ELSE "end"

\* mutant: the folder's batch is not charged to the budget
budget_after_free(remaining_budget, batch) == remaining_budget

\* process_folder's result: remaining_budget - len(to_process)
budget_after(remaining_budget, batch) == remaining_budget - Len(batch)

\* mutant: the whole listing is processed, whatever the budget
batch_of_all(listing, remaining_budget) == listing

\* to_process = missing[:remaining_budget]
batch_of(listing, remaining_budget) == FirstN(listing, remaining_budget)

\* main's "if budget > 0: budget = process_folder(...)" up to the loop:
\* the folder is listed and the batch cut to the budget
StageEnter(script, listing) ==
    /\ stage = script
    /\ stage_pc = "main"
    /\ IF budget > 0
       THEN /\ pending' = [pending EXCEPT ![folder] = Len(listing)]
            /\ IF listing = <<>>
               THEN NextFolder /\ UNCHANGED <<to_process, idx>>
               ELSE /\ to_process' = batch_of(listing, budget)
                    /\ idx' = 0
                    /\ stage_pc' = "loop"
                    /\ UNCHANGED folder
       ELSE NextFolder /\ UNCHANGED <<pending, to_process, idx>>
    /\ UNCHANGED <<stage, budget, run_start, tried, failed, calls, last>>
    /\ UNCHANGED nasVars

\* the loop is over: process_folder returns what is left of the budget
StageReturn(script) ==
    /\ stage = script
    /\ stage_pc = "loop"
    /\ idx = Len(to_process)
    /\ budget' = budget_after(budget, to_process)
    /\ NextFolder
    /\ to_process' = <<>>
    /\ idx' = 0
    /\ UNCHANGED <<stage, run_start, pending, tried, failed, calls, last>>
    /\ UNCHANGED nasVars

\* main's last line: the remaining budget is printed and the script ends
StageExit(script) ==
    /\ stage = script
    /\ stage_pc = "end"
    /\ stage' = "idle"
    /\ stage_pc' = "idle"
    /\ folder' = "none"
    /\ budget' = 0
    /\ run_start' = NoRun
    /\ pending' = [k \in Kinds |-> -1]
    /\ tried' = <<>>
    /\ failed' = {}
    /\ calls' = 0
    /\ last' = "none"
    /\ UNCHANGED <<to_process, idx>>
    /\ UNCHANGED nasVars

\* the bookkeeping of one pass of a loop over to_process
ItemDone(img, o) ==
    /\ idx' = idx + 1
    /\ tried' = Append(tried, img)
    /\ failed' = IF o.kind = "ok" THEN failed ELSE failed \cup {img}
    /\ calls' = IF o.called THEN calls + 1 ELSE calls
    /\ last' = o.kind
    /\ UNCHANGED <<stage, stage_pc, folder, budget, to_process, run_start, pending>>
    /\ UNCHANGED <<nas_exists, nas_images>>

\* the service answers with empty fields for t.jpg only
CaptionOutcomesFor(img) ==
    {o \in CaptionOutcomes : o.title = <<"T">> \/ o.kind # "ok" \/ img = "t.jpg"}

CaptionStart == \E B \in 0..MaxBudget : StageStart("caption", B)

CaptionEnter == StageEnter("caption", list_images_without_captions(folder))

\* mutant: the first failure ends the loop
CaptionItemAbortsBatch ==
    /\ stage = "caption"
    /\ stage_pc = "loop"
    /\ idx < Len(to_process)
    /\ LET img == to_process[idx + 1]
       IN  \E o \in CaptionOutcomesFor(img) :
             /\ IF o.kind = "ok"
                THEN LET f == caption_fields(img, o)
                     IN  txt' = [txt EXCEPT ![ImageStem(img)] =
                                    TextFile(caption_file_text(f.title, f.caption))]
                ELSE UNCHANGED txt
             /\ idx' = IF o.kind = "ok" THEN idx + 1 ELSE Len(to_process)
             /\ tried' = Append(tried, img)
             /\ failed' = IF o.kind = "ok" THEN failed ELSE failed \cup {img}
             /\ calls' = IF o.called THEN calls + 1 ELSE calls
             /\ last' = o.kind
             /\ UNCHANGED <<stage, stage_pc, folder, budget, to_process, run_start,
                            pending>>
             /\ UNCHANGED <<nas_exists, nas_images>>
    /\ UNCHANGED json

\* one pass of the loop of process_folder, lines 233-239
CaptionItem ==
    /\ stage = "caption"
    /\ stage_pc = "loop"
    /\ idx < Len(to_process)
    /\ LET img == to_process[idx + 1]
       IN  \E o \in CaptionOutcomesFor(img) :
             /\ IF o.kind = "ok"
                THEN LET f == caption_fields(img, o)
                     IN  txt' = [txt EXCEPT ![ImageStem(img)] =
                                    TextFile(caption_file_text(f.title, f.caption))]
                ELSE UNCHANGED txt
             /\ ItemDone(img, o)
    /\ UNCHANGED json

CaptionReturn == StageReturn("caption")

CaptionExit == StageExit("caption")

TagsStart == \E B \in 0..MaxBudget : StageStart("tags", B)

TagsEnter == StageEnter("tags", list_captioned_images_without_json(folder))

\* one pass of the loop of process_folder, lines 353-374
TagsItem ==
    /\ stage = "tags"
    /\ stage_pc = "loop"
    /\ idx < Len(to_process)
    /\ LET img == to_process[idx + 1]
       IN  \E o \in TagOutcomes :
             /\ IF o.kind = "ok"
                THEN LET p == parse_caption_file(ImageStem(img), txt[ImageStem(img)])
                         tc == tags_and_characters(o, 10)
                     IN  json' = [json EXCEPT ![ImageStem(img)] =
                                     json_sidecar(img, p.title, p.caption, tc.tags,
                                                  tc.characters, folder)]
                ELSE UNCHANGED json
             /\ ItemDone(img, o)
    /\ UNCHANGED txt

TagsReturn == StageReturn("tags")

TagsExit == StageExit("tags")

InitStageIdle ==
    /\ stage = "idle"
    /\ stage_pc = "idle"
    /\ folder = "none"
    /\ budget = 0
    /\ to_process = <<>>
    /\ idx = 0
    /\ run_start = NoRun
    /\ pending = [k \in Kinds |-> -1]
    /\ tried = <<>>
    /\ failed = {}
    /\ calls = 0
    /\ last = "none"

NoPipe == [phase |-> "off", caption_B |-> 0, caption_calls |-> 0, tags_B |-> 0]

(***************************************************************************)
(* build_art_site.py: main, one action per effect on the file system       *)
(***************************************************************************)
DocNames == {"home", "gallery", "sketchbook"}

NoDoc == [exists |-> FALSE, text |-> <<>>]
DocFile(t) == [exists |-> TRUE, text |-> t]

NoExit == [code |-> -1, err |-> "", doc |-> ""]

EmptyMem ==
    [copied_finished |-> <<>>, copied_sketchbook |-> <<>>,
     hero_html |-> <<>>, featured_html |-> <<>>, gallery_finished_html |-> <<>>,
     gallery_sketchbook_html |-> <<>>, home_sketches_html |-> <<>>,
     original |-> <<>>]

\* raise SystemExit(message), or an exception nobody catches: exit status 1
SiteAbort(err, doc) ==
    /\ site_pc' = "aborted"
    /\ site_exit' = [code |-> 1, err |-> err, doc |-> doc]

\* the three replace_section calls of the home page, on the in-memory copy
HomeNew(original, mem) ==
    LET r1 == replace_section(original, MARKERS_HOME.hero[1], MARKERS_HOME.hero[2],
                              mem.hero_html)
    IN  IF ~r1.ok THEN r1
        ELSE LET r2 == replace_section(r1.html, MARKERS_HOME.featured[1],
                                       MARKERS_HOME.featured[2], mem.featured_html)
             IN  IF ~r2.ok THEN r2
                 ELSE replace_section(r2.html, MARKERS_HOME.sketch_preview[1],
                                      MARKERS_HOME.sketch_preview[2],
                                      mem.home_sketches_html)

GalleryNew(original, mem) ==
    replace_section(original, MARKERS_GALLERY.gallery_finished[1],
                    MARKERS_GALLERY.gallery_finished[2], mem.gallery_finished_html)

SketchbookNew(original, mem) ==
    replace_section(original, MARKERS_SKETCHBOOK.gallery_sketchbook[1],
                    MARKERS_SKETCHBOOK.gallery_sketchbook[2],
                    mem.gallery_sketchbook_html)

\* mutant: the finished folder is not checked
SiteCheckFinishedNoCheck ==
    /\ site_pc = "start"
    /\ site_pc' = "finished"
    /\ UNCHANGED <<site_exit, local, docs, backups, site_mem, site_start>>
    /\ UNCHANGED <<nasVars, stageVars, pipe, rsVars, pureVars>>

SiteCheckFinished ==
    /\ site_pc = "start"
    /\ IF ~nas_exists["finished"]
       THEN SiteAbort("SystemExit", "finished folder")
       ELSE site_pc' = "finished" /\ UNCHANGED site_exit
    /\ UNCHANGED <<local, docs, backups, site_mem, site_start>>
    /\ UNCHANGED <<nasVars, stageVars, pipe, rsVars, pureVars>>

SiteMirrorFinished ==
    /\ site_pc = "finished"
    /\ LET finished_items == list_images_with_captions("finished")
           copied_finished == finished_items
           featured == IF Len(copied_finished) > 1
                       THEN SubSeq(copied_finished, 2,
                                   IF Len(copied_finished) < 1 + NUM_FEATURED
                                   THEN Len(copied_finished) ELSE 1 + NUM_FEATURED)
                       ELSE <<>>
       IN  /\ local' = [local EXCEPT !["finished"] = copy_images_dest(finished_items)]
           /\ IF metadata_raises(copied_finished)
              THEN SiteAbort("AttributeError", "") /\ UNCHANGED site_mem
              ELSE /\ site_mem' =
                        [site_mem EXCEPT
                           !.copied_finished = copied_finished,
                           !.hero_html =
                               IF copied_finished # <<>>
                               THEN build_hero_html(copied_finished[1].name,
                                                    copied_finished[1].caption)
                               ELSE <<"<div class=\"hero-image\"></div>">>,
                           !.featured_html = build_featured_html(featured),
                           !.gallery_finished_html =
                               build_gallery_html(copied_finished, "finished")]
                   /\ site_pc' = "sketchbook"
                   /\ UNCHANGED site_exit
    /\ UNCHANGED <<docs, backups, site_start>>
    /\ UNCHANGED <<nasVars, stageVars, pipe, rsVars, pureVars>>

SiteMirrorSketchbook ==
    /\ site_pc = "sketchbook"
    /\ LET copied_sketchbook == IF nas_exists["sketchbook"]
                                THEN list_images_with_captions("sketchbook")
                                ELSE <<>>
       IN  /\ local' = IF nas_exists["sketchbook"]
                       THEN [local EXCEPT
                               !["sketchbook"] = copy_images_dest(copied_sketchbook)]
                       ELSE local
           /\ IF metadata_raises(copied_sketchbook)
              THEN SiteAbort("AttributeError", "") /\ UNCHANGED site_mem
              ELSE /\ site_mem' =
                        [site_mem EXCEPT
                           !.copied_sketchbook = copied_sketchbook,
                           !.gallery_sketchbook_html =
                               build_gallery_html(copied_sketchbook, "sketchbook"),
                           !.home_sketches_html =
                               build_home_sketches_html(copied_sketchbook)]
                   /\ site_pc' = "home"
                   /\ UNCHANGED site_exit
    /\ UNCHANGED <<docs, backups, site_start>>
    /\ UNCHANGED <<nasVars, stageVars, pipe, rsVars, pureVars>>

\* mutant: no backup of the home page is written
SiteHomeBackupNone ==
    /\ site_pc = "home"
    /\ IF ~docs["home"].exists
       THEN SiteAbort("SystemExit", "home") /\ UNCHANGED site_mem
       ELSE /\ site_mem' = [site_mem EXCEPT !.original = docs["home"].text]
            /\ site_pc' = "home_write"
            /\ UNCHANGED site_exit
    /\ UNCHANGED <<backups, local, docs, site_start>>
    /\ UNCHANGED <<nasVars, stageVars, pipe, rsVars, pureVars>>

\* lines 413-418: the home page is read and its backup written
SiteHomeBackup ==
    /\ site_pc = "home"
    /\ IF ~docs["home"].exists
       THEN SiteAbort("SystemExit", "home") /\ UNCHANGED <<site_mem, backups>>
       ELSE /\ site_mem' = [site_mem EXCEPT !.original = docs["home"].text]
            /\ backups' = [backups EXCEPT !["home"] = DocFile(docs["home"].text)]
            /\ site_pc' = "home_write"
            /\ UNCHANGED site_exit
    /\ UNCHANGED <<local, docs, site_start>>
    /\ UNCHANGED <<nasVars, stageVars, pipe, rsVars, pureVars>>

\* mutant: the home page is written after each region, so a later region's
\* missing markers leave it half replaced
SiteHomeWriteEachRegion ==
    /\ site_pc = "home_write"
    /\ LET r1 == replace_section(site_mem.original, MARKERS_HOME.hero[1],
                                 MARKERS_HOME.hero[2], site_mem.hero_html)
           r == HomeNew(site_mem.original, site_mem)
       IN  IF r.ok
           THEN /\ docs' = [docs EXCEPT !["home"] = DocFile(r.html)]
                /\ site_pc' = "gallery"
                /\ UNCHANGED site_exit
           ELSE /\ SiteAbort(r.err, "home")
                /\ docs' = IF r1.ok THEN [docs EXCEPT !["home"] = DocFile(r1.html)]
                           ELSE docs
    /\ UNCHANGED <<local, backups, site_mem, site_start>>
    /\ UNCHANGED <<nasVars, stageVars, pipe, rsVars, pureVars>>

\* lines 420-425: the regions are replaced in memory, then the page is written
SiteHomeWrite ==
    /\ site_pc = "home_write"
    /\ LET r == HomeNew(site_mem.original, site_mem)
       IN  IF r.ok
           THEN /\ docs' = [docs EXCEPT !["home"] = DocFile(r.html)]
                /\ site_pc' = "gallery"
                /\ UNCHANGED site_exit
           ELSE SiteAbort(r.err, "home") /\ UNCHANGED docs
    /\ UNCHANGED <<local, backups, site_mem, site_start>>
    /\ UNCHANGED <<nasVars, stageVars, pipe, rsVars, pureVars>>

\* an optional page: read and backed up, or skipped with a warning
SiteOptionalBackup(pc, doc, write_pc, skip_pc) ==
    /\ site_pc = pc
    /\ IF docs[doc].exists
       THEN /\ site_mem' = [site_mem EXCEPT !.original = docs[doc].text]
            /\ backups' = [backups EXCEPT ![doc] = DocFile(docs[doc].text)]
            /\ site_pc' = write_pc
            /\ site_exit' = site_exit
       ELSE /\ site_pc' = skip_pc
            /\ site_exit' = IF skip_pc = "done"
                            THEN [code |-> 0, err |-> "", doc |-> ""] ELSE site_exit
            /\ UNCHANGED <<site_mem, backups>>
    /\ UNCHANGED <<local, docs, site_start>>
    /\ UNCHANGED <<nasVars, stageVars, pipe, rsVars, pureVars>>

SiteOptionalWrite(pc, doc, r, next_pc) ==
    /\ site_pc = pc
    /\ IF r.ok
       THEN /\ docs' = [docs EXCEPT ![doc] = DocFile(r.html)]
            /\ site_pc' = next_pc
            /\ site_exit' = IF next_pc = "done"
                            THEN [code |-> 0, err |-> "", doc |-> ""] ELSE site_exit
       ELSE SiteAbort(r.err, doc) /\ UNCHANGED docs
    /\ UNCHANGED <<local, backups, site_mem, site_start>>
    /\ UNCHANGED <<nasVars, stageVars, pipe, rsVars, pureVars>>

\* lines 430-443
SiteGalleryBackup ==
    SiteOptionalBackup("gallery", "gallery", "gallery_write", "sketchbook_doc")

SiteGalleryWrite ==
    SiteOptionalWrite("gallery_write", "gallery",
                      GalleryNew(site_mem.original, site_mem), "sketchbook_doc")

\* lines 448-461
SiteSketchbookBackup ==
    SiteOptionalBackup("sketchbook_doc", "sketchbook", "sketchbook_write", "done")

SiteSketchbookWrite ==
    SiteOptionalWrite("sketchbook_write", "sketchbook",
                      SketchbookNew(site_mem.original, site_mem), "done")

NextSite ==
    \/ SiteCheckFinished
    \/ SiteMirrorFinished
    \/ SiteMirrorSketchbook
    \/ SiteHomeBackup
    \/ SiteHomeWrite
    \/ SiteGalleryBackup
    \/ SiteGalleryWrite
    \/ SiteSketchbookBackup
    \/ SiteSketchbookWrite

(***************************************************************************)
(* SpecSite: one run of build_art_site.py from drawn NAS states, pages and *)
(* local folders                                                           *)
(***************************************************************************)
GoodCaption == <<"T", " ", EMDASH, " ", "c">>

\* a caption with a backslash before a letter that is no escape of re
BackslashCaption == <<"c", BS, "x">>

WrittenJson(kind) == DictJson(<<"t">>, << <<"c">>, <<"f">> >>, << <<"T">> >>, <<kind>>)

SiteImages ==
    {[finished |-> {}, sketchbook |-> {}],
     [finished |-> {"a_b.jpg", "a_b.png", "c.jpg"}, sketchbook |-> {"s.jpg"}]}

SiteTxtChoices(stem) ==
    IF stem = "a_b" THEN {NoFile, TextFile(GoodCaption), TextFile(BackslashCaption)}
    ELSE IF stem \in {"c", "s"} THEN {NoFile, TextFile(GoodCaption)}
    ELSE {NoFile}

SiteJsonChoices(stem) ==
    IF stem = "a_b" THEN {NoJson, MalformedJson, WrittenJson("finished")}
    ELSE IF stem = "c" THEN {NoJson, WrittenJson("finished")}
    ELSE IF stem = "s" THEN {NoJson, NonDictJson, WrittenJson("sketchbook")}
    ELSE {NoJson}

StartOf(m) == m[1][1]
EndOf(m) == m[2][1]

HomeFull ==
    <<"<html>", StartOf(MARKERS_HOME.hero), "old hero", EndOf(MARKERS_HOME.hero), "<h2>",
      StartOf(MARKERS_HOME.featured), EndOf(MARKERS_HOME.featured),
      StartOf(MARKERS_HOME.sketch_preview), "old", EndOf(MARKERS_HOME.sketch_preview), "</html>">>

\* the featured region lost its end marker
HomeNoFeatured ==
    <<"<html>", StartOf(MARKERS_HOME.hero), "old hero", EndOf(MARKERS_HOME.hero), "<h2>",
      StartOf(MARKERS_HOME.featured),
      StartOf(MARKERS_HOME.sketch_preview), "old", EndOf(MARKERS_HOME.sketch_preview), "</html>">>

\* the featured region lies inside the hero region
HomeNested ==
    <<"<html>", StartOf(MARKERS_HOME.hero), StartOf(MARKERS_HOME.featured),
      EndOf(MARKERS_HOME.featured), EndOf(MARKERS_HOME.hero),
      StartOf(MARKERS_HOME.sketch_preview), EndOf(MARKERS_HOME.sketch_preview), "</html>">>

GalleryFull ==
    <<"<html>", StartOf(MARKERS_GALLERY.gallery_finished), "old",
      EndOf(MARKERS_GALLERY.gallery_finished), "</html>">>

SketchbookFull ==
    <<"<html>", StartOf(MARKERS_SKETCHBOOK.gallery_sketchbook), "old",
      EndOf(MARKERS_SKETCHBOOK.gallery_sketchbook), "</html>">>

NoMarkers == <<"<html>", "</html>">>

StaleBackup == DocFile(<<"<html>", "an older backup", "</html>">>)

InitNasSite ==
    /\ nas_exists \in [Kinds -> BOOLEAN]
    /\ nas_images \in SiteImages
    /\ \A k \in Kinds : ~nas_exists[k] => nas_images[k] = {}
    /\ txt \in [Stems -> {NoFile, TextFile(GoodCaption), TextFile(BackslashCaption)}]
    /\ json \in [Stems -> {NoJson, MalformedJson, NonDictJson,
                           WrittenJson("finished"), WrittenJson("sketchbook")}]
    /\ \A s \in Stems :
          /\ txt[s] \in SiteTxtChoices(s)
          /\ json[s] \in SiteJsonChoices(s)
          /\ (\A img \in nas_images[StemKind(s)] : ImageStem(img) # s)
                => (txt[s] = NoFile /\ json[s] = NoJson)

InitSiteRun ==
    /\ site_pc = "start"
    /\ site_exit = NoExit
    /\ local = [k \in Kinds |-> {"old.jpg"}]
    /\ docs \in [DocNames -> {NoDoc, DocFile(HomeFull), DocFile(HomeNoFeatured),
                              DocFile(HomeNested), DocFile(GalleryFull),
                              DocFile(SketchbookFull), DocFile(NoMarkers)}]
    /\ docs["home"] \in {NoDoc, DocFile(HomeFull), DocFile(HomeNoFeatured),
                         DocFile(HomeNested)}
    /\ docs["gallery"] \in {NoDoc, DocFile(GalleryFull), DocFile(NoMarkers)}
    /\ docs["sketchbook"] \in {NoDoc, DocFile(SketchbookFull), DocFile(NoMarkers)}
    /\ backups = [d \in DocNames |-> IF d = "sketchbook" THEN NoDoc ELSE StaleBackup]
    /\ site_mem = EmptyMem
    /\ site_start = [local |-> local, docs |-> docs, backups |-> backups]

InitNasIdle ==
    /\ nas_exists = [k \in Kinds |-> FALSE]
    /\ nas_images = [k \in Kinds |-> {}]
    /\ txt = [s \in Stems |-> NoFile]
    /\ json = [s \in Stems |-> NoJson]

InitSiteIdle ==
    /\ site_pc = "idle"
    /\ site_exit = NoExit
    /\ local = [k \in Kinds |-> {}]
    /\ docs = [d \in DocNames |-> NoDoc]
    /\ backups = [d \in DocNames |-> NoDoc]
    /\ site_mem = EmptyMem
    /\ site_start = [local |-> local, docs |-> docs, backups |-> backups]

InitSite ==
    /\ InitNasSite
    /\ InitStageIdle
    /\ pipe = NoPipe
    /\ live = NoLive
    /\ InitSiteRun
    /\ InitRsIdle

SpecSite == InitSite /\ [][NextSite]_vars

(***************************************************************************)
(* SpecReplace: replace_section on drawn documents and contents            *)
(***************************************************************************)
MaxPart == 1        \* longest prefix, old content and suffix drawn
MaxNew == 2         \* longest new content drawn

RsStart == MARKERS_HOME.hero[1]
RsEnd == MARKERS_HOME.hero[2]

\* what a document holds around a region: text, the region's own markers
\* again, and the markers of another region
RsDocAlphabet == {"x", RsStart[1], RsEnd[1], MARKERS_HOME.featured[1][1]}

\* what generated content holds: a letter, the backslash, and the end marker
RsNewAlphabet == {"n", BS, RsEnd[1]}

\* the same region a second time, as a pasted copy of the block leaves it
RsSecondRegion == RsStart \o <<"x">> \o RsEnd

RsCalled == rs_out.err # "not called"

RsDoc(in) == in.prefix \o RsStart \o in.old \o RsEnd \o in.suffix

InitReplace ==
    /\ InitNasIdle
    /\ InitStageIdle
    /\ pipe = NoPipe
    /\ live = NoLive
    /\ InitSiteIdle
    /\ rs_in \in [prefix : SeqsUpTo(RsDocAlphabet, MaxPart),
                  old    : SeqsUpTo(RsDocAlphabet, MaxPart),
                  suffix : SeqsUpTo(RsDocAlphabet, MaxPart) \cup {RsSecondRegion},
                  new    : SeqsUpTo(RsNewAlphabet, MaxNew)]
    /\ rs_out = RsNone
    /\ fn_in = [fn |-> "none"]
    /\ fn_out = FnNone

RsCall ==
    /\ rs_out = RsNone
    /\ rs_out' = replace_section(RsDoc(rs_in), RsStart, RsEnd, rs_in.new)
    /\ UNCHANGED rs_in
    /\ UNCHANGED <<nasVars, stageVars, pipe, siteVars, pureVars>>

NextReplace == RsCall

SpecReplace == InitReplace /\ [][NextReplace]_vars

(***************************************************************************)
(* SpecPure: the pure functions of the three scripts on drawn arguments    *)
(***************************************************************************)
MaxSketches == 5    \* longest list of sketches drawn

\* the (file_name, caption) pairs copy_images can return for the sketchbook
SketchItems ==
    {[name |-> "s.jpg", caption |-> GoodCaption], [name |-> "t.jpg", caption |-> <<>>]}

SketchesInputs ==
    {[fn |-> "build_home_sketches_html", items |-> items] :
        items \in SeqsUpTo(SketchItems, MaxSketches)}

MaxTags == 3        \* longest list of raw tags (and of raw characters) drawn

\* the entries a service answer can hold: strings that differ in case or in
\* blanks only, a blank string, and an entry that is no string
RawEntries == {Str(<<"f">>), Str(<<"F", " ">>), Str(<<"c">>), Str(<<" ">>), NonStr}

\* the values of max_tags drawn: process_folder asks for 10
MaxTagsChoices == {1, 2, 10}

TagsInputs ==
    {[fn |-> "call_openai_tags_and_characters", raw |-> raw, chars_is_list |-> b,
      max_tags |-> n] :
        raw \in SeqsUpTo(RawEntries, MaxTags), b \in BOOLEAN, n \in MaxTagsChoices}

MaxTitle == 4       \* longest title drawn for make_slug

\* what a title holds: letters of both cases, a digit, a blank, a hyphen and
\* a letter outside ASCII
TitleAlphabet == {"A", "b", "1", " ", "-", "<U+00E9>"}

\* the title of the docstring's example, with an exclamation mark
ExampleTitle ==
    <<"Y", "o", "u", "n", "g", " ", "H", "e", "l", "l", "b", "o", "y", " ",
      "I", "l", "l", "u", "s", "t", "r", "a", "t", "i", "o", "n", "!">>

SlugInputs ==
    {[fn |-> "make_slug", title |-> t] :
        t \in SeqsUpTo(TitleAlphabet, MaxTitle) \cup {ExampleTitle}}

\* what the service's title and caption hold: a letter, a blank, the em
\* dash of the sidecar format and a character escape_html replaces
CaptionAlphabet == {"T", " ", EMDASH, "&"}

\* the captions drawn: none, a word, and sentences with an em dash
CaptionsDrawn ==
    {<<>>, <<"c">>, <<"c", EMDASH, "d">>, <<"c", " ", EMDASH, " ", "d">>}

RoundTripInputs ==
    {[fn |-> "title_round_trip", title |-> t, caption |-> c] :
        t \in SeqsUpTo(CaptionAlphabet, MaxTitle), c \in CaptionsDrawn}

PureInputs == SketchesInputs \cup TagsInputs \cup SlugInputs \cup RoundTripInputs

InitPure ==
    /\ nas_exists = [k \in Kinds |-> TRUE]
    /\ nas_images = [k \in Kinds |-> ImagesOf(k)]
    /\ txt = [s \in Stems |-> NoFile]
    /\ json \in [Stems -> {NoJson, WrittenJson("sketchbook")}]
    /\ \A s \in Stems \ {"s"} : json[s] = NoJson
    /\ InitStageIdle
    /\ pipe = NoPipe
    /\ live = NoLive
    /\ InitSiteIdle
    /\ rs_in = [prefix |-> <<>>, old |-> <<>>, suffix |-> <<>>, new |-> <<>>]
    /\ rs_out = RsNone
    /\ fn_in \in PureInputs
    /\ fn_in.fn # "build_home_sketches_html" => json["s"] = NoJson
    /\ fn_out = FnNone

PureFrame == UNCHANGED <<fn_in, nasVars, stageVars, pipe, siteVars, rsVars>>

SketchesCall ==
    /\ fn_in.fn = "build_home_sketches_html"
    /\ ~fn_out.done
    /\ fn_out' = [done |-> TRUE, value |-> build_home_sketches_html(fn_in.items)]
    /\ PureFrame

\* lines 255-291 of call_openai_tags_and_characters on a parsed answer whose
\* tags and characters fields hold the drawn list
TagsCleanCall ==
    /\ fn_in.fn = "call_openai_tags_and_characters"
    /\ ~fn_out.done
    /\ fn_out' = [done |-> TRUE,
                  value |-> tags_and_characters(
                      [tags |-> fn_in.raw, chars_is_list |-> fn_in.chars_is_list,
                       characters |-> fn_in.raw], fn_in.max_tags)]
    /\ PureFrame

\* make_slug on the title, and again on its own result
SlugCall ==
    /\ fn_in.fn = "make_slug"
    /\ ~fn_out.done
    /\ fn_out' = [done |-> TRUE,
                  value |-> [slug |-> make_slug(fn_in.title),
                             again |-> make_slug(make_slug(fn_in.title))]]
    /\ PureFrame

\* the title and caption of a service answer for a_b.jpg go through
\* call_openai_caption's clean-up and write_caption_file; the sidecar is then
\* read by parse_caption_file and, as list_images_with_captions reads it, by
\* _derive_title_and_body
RoundTripCall ==
    /\ fn_in.fn = "title_round_trip"
    /\ ~fn_out.done
    /\ LET f == caption_fields("a_b.jpg", fn_in)
           sidecar == TextFile(caption_file_text(f.title, f.caption))
       IN  fn_out' = [done |-> TRUE,
                      value |-> [title |-> f.title,
                                 caption |-> f.caption,
                                 text |-> sidecar.text,
                                 parsed |-> parse_caption_file("a_b", sidecar),
                                 site |-> _derive_title_and_body(
                                             "a_b.jpg", ReadCaptionText(sidecar))]]
    /\ PureFrame

NextPure ==
    \/ SketchesCall
    \/ TagsCleanCall
    \/ SlugCall
    \/ RoundTripCall

SpecPure == InitPure /\ [][NextPure]_vars

(***************************************************************************)
(* Spec: runs of generate_captions.py and generate_tags_from_captions.py,  *)
(* one after the other in any order, from drawn NAS states                 *)
(***************************************************************************)
BlankCaption == <<" ", LF>>

\* a metadata sidecar that was there before: written by an earlier run or by hand
ExistingJson == [WrittenJson("finished") EXCEPT !.file = "made earlier"]

StageImages(kind) ==
    IF kind = "finished" THEN {"a_b.jpg", "a_b.png", "c.jpg"} ELSE {"s.jpg", "t.jpg"}

StageTxtChoices(stem) ==
    CASE stem = "a_b" -> {NoFile, TextFile(BlankCaption), TextFile(GoodCaption)}
      [] stem = "c" -> {NoFile, TextFile(GoodCaption)}
      [] stem = "s" -> {NoFile, Undecodable, TextFile(GoodCaption)}
      [] stem = "t" -> {NoFile, TextFile(GoodCaption)}

StageJsonChoices(stem) ==
    IF stem \in {"a_b", "s"} THEN {NoJson, ExistingJson} ELSE {NoJson}

InitNasStage ==
    /\ nas_exists \in [Kinds -> BOOLEAN]
    /\ nas_images = [k \in Kinds |-> IF nas_exists[k] THEN StageImages(k) ELSE {}]
    /\ txt \in [Stems -> {NoFile, Undecodable, TextFile(BlankCaption),
                          TextFile(GoodCaption)}]
    /\ json \in [Stems -> {NoJson, ExistingJson}]
    /\ \A s \in Stems :
          /\ txt[s] \in StageTxtChoices(s)
          /\ json[s] \in StageJsonChoices(s)
          /\ ~nas_exists[StemKind(s)] => (txt[s] = NoFile /\ json[s] = NoJson)

Init ==
    /\ InitNasStage
    /\ InitStageIdle
    /\ pipe = NoPipe
    /\ live = NoLive
    /\ InitSiteIdle
    /\ InitRsIdle

\* the scripts touch neither the site nor the pipeline bookkeeping
StageFrame == UNCHANGED <<live, pipe, siteVars, rsVars, pureVars>>

Next ==
    \/ CaptionStart /\ StageFrame
    \/ CaptionEnter /\ StageFrame
    \/ CaptionItem /\ StageFrame
    \/ CaptionReturn /\ StageFrame
    \/ CaptionExit /\ StageFrame
    \/ TagsStart /\ StageFrame
    \/ TagsEnter /\ StageFrame
    \/ TagsItem /\ StageFrame
    \/ TagsReturn /\ StageFrame
    \/ TagsExit /\ StageFrame

Spec == Init /\ [][Next]_vars

(***************************************************************************)
(* SpecExternal: generate_captions.py while another writer (the artist, a  *)
(* sync job) puts caption sidecars on the NAS share                        *)
(***************************************************************************)
\* a caption written by hand: none the Caption Stage writes
ExternalCaption == <<"H", " ", EMDASH, " ", "h">>

\* between the listing and the loop pass of an image of the batch, someone
\* else creates the image's caption sidecar
ExternalWrite ==
    /\ stage = "caption"
    /\ stage_pc = "loop"
    /\ \E k \in (idx + 1)..Len(to_process) :
          /\ ~HasCaption(txt[ImageStem(to_process[k])])
          /\ txt' = [txt EXCEPT ![ImageStem(to_process[k])] = TextFile(ExternalCaption)]
    /\ UNCHANGED <<nas_exists, nas_images, json>>
    /\ UNCHANGED stageVars

NextExternal ==
    \/ CaptionStart /\ StageFrame
    \/ CaptionEnter /\ StageFrame
    \/ CaptionItem /\ StageFrame
    \/ CaptionReturn /\ StageFrame
    \/ CaptionExit /\ StageFrame
    \/ ExternalWrite /\ StageFrame

SpecExternal == Init /\ [][NextExternal]_vars

(***************************************************************************)
(* SpecLive: generate_captions.py run again and again (a scheduled job)    *)
(* with the same MAX_IMAGES_PER_RUN over the same assets, while the        *)
(* service fails on some images every time                                 *)
(***************************************************************************)
InitLive ==
    /\ InitNasStage
    /\ json = [s \in Stems |-> NoJson]
    /\ InitStageIdle
    /\ pipe = NoPipe
    /\ InitSiteIdle
    /\ InitRsIdle
    /\ live \in [B : 1..MaxBudget, down : SUBSET {"a_b.jpg", "c.jpg", "t.jpg"}]

\* main, line 252: budget = MAX_IMAGES_PER_RUN, the same in every run
LiveStart == StageStart("caption", live.B)

\* one pass of the loop: call_openai_caption raises for the images the
\* service fails on and answers for every other image
LiveItem ==
    /\ CaptionItem
    /\ (last' = "ok") <=> (to_process[idx + 1] \notin live.down)

NextLive ==
    \/ LiveStart /\ StageFrame
    \/ CaptionEnter /\ StageFrame
    \/ LiveItem /\ StageFrame
    \/ CaptionReturn /\ StageFrame
    \/ CaptionExit /\ StageFrame

\* a run, once started, goes through main to its last line (one sequential
\* process), and the job is started again after every run
SpecLive ==
    /\ InitLive
    /\ [][NextLive]_vars
    /\ WF_vars(LiveStart /\ StageFrame)
    /\ WF_vars(CaptionEnter /\ StageFrame)
    /\ WF_vars(LiveItem /\ StageFrame)
    /\ WF_vars(CaptionReturn /\ StageFrame)
    /\ WF_vars(CaptionExit /\ StageFrame)

(***************************************************************************)
(* SpecPipeline: one pipeline run, generate_captions.py and then           *)
(* generate_tags_from_captions.py, each with its own MAX_IMAGES_PER_RUN    *)
(***************************************************************************)
InitPipeline ==
    /\ nas_exists = [k \in Kinds |-> TRUE]
    /\ nas_images = [k \in Kinds |-> StageImages(k)]
    /\ txt \in [Stems -> {NoFile, TextFile(GoodCaption)}]
    /\ \A s \in Stems \ {"s"} : txt[s] = NoFile
    /\ json = [s \in Stems |-> NoJson]
    /\ InitStageIdle
    /\ pipe = [NoPipe EXCEPT !.phase = "ready"]
    /\ live = NoLive
    /\ InitSiteIdle
    /\ InitRsIdle

PipeCaptionStart ==
    /\ pipe.phase = "ready"
    /\ CaptionStart
    /\ pipe' = [pipe EXCEPT !.phase = "caption", !.caption_B = budget']

PipeCaptionEnter == CaptionEnter /\ UNCHANGED pipe

PipeCaptionItem == CaptionItem /\ UNCHANGED pipe

PipeCaptionReturn == CaptionReturn /\ UNCHANGED pipe

PipeCaptionExit ==
    /\ CaptionExit
    /\ pipe' = [pipe EXCEPT !.phase = "between", !.caption_calls = calls]

PipeTagsStart ==
    /\ pipe.phase = "between"
    /\ TagsStart
    /\ pipe' = [pipe EXCEPT !.phase = "tags", !.tags_B = budget']

PipeTagsEnter == TagsEnter /\ UNCHANGED pipe

PipeTagsItem == TagsItem /\ UNCHANGED pipe

PipeTagsReturn == TagsReturn /\ UNCHANGED pipe

PipeTagsExit ==
    /\ stage = "tags"
    /\ stage_pc = "end"
    /\ stage_pc' = "exited"
    /\ pipe' = [pipe EXCEPT !.phase = "done"]
    /\ UNCHANGED <<stage, folder, budget, to_process, idx, run_start, pending, tried,
                   failed, calls, last>>
    /\ UNCHANGED nasVars

PipeFrame == UNCHANGED <<live, siteVars, rsVars, pureVars>>

NextPipeline ==
    \/ PipeCaptionStart /\ PipeFrame
    \/ PipeCaptionEnter /\ PipeFrame
    \/ PipeCaptionItem /\ PipeFrame
    \/ PipeCaptionReturn /\ PipeFrame
    \/ PipeCaptionExit /\ PipeFrame
    \/ PipeTagsStart /\ PipeFrame
    \/ PipeTagsEnter /\ PipeFrame
    \/ PipeTagsItem /\ PipeFrame
    \/ PipeTagsReturn /\ PipeFrame
    \/ PipeTagsExit /\ PipeFrame

SpecPipeline == InitPipeline /\ [][NextPipeline]_vars

\* the region occurs exactly once: each of its markers occurs once
RsOnce(in) ==
    /\ Cardinality(Occurrences(RsDoc(in), RsStart)) = 1
    /\ Cardinality(Occurrences(RsDoc(in), RsEnd)) = 1

RsExpected(in) ==
    in.prefix \o RsStart \o <<LF>> \o in.new \o <<LF>> \o RsEnd \o in.suffix

\* C5: for a document prefix + start + old + end + suffix in which the region
\* occurs exactly once, replace_section returns prefix + start + LF +
\* newContent + LF + end + suffix for every newContent, inserted literally.
C5_ReplaceLiteral ==
    (RsCalled /\ RsOnce(rs_in))
        => (rs_out.ok /\ rs_out.html = RsExpected(rs_in))

\* the same without a backslash in newContent: the cases the code gets right
C5_ReplaceNoBackslash ==
    (RsCalled /\ RsOnce(rs_in) /\ \A k \in 1..Len(rs_in.new) : rs_in.new[k] # BS)
        => (rs_out.ok /\ rs_out.html = RsExpected(rs_in))

(***************************************************************************)
(* Site Assembly: claims C6, C7, C9, C10 (checked under SpecSite)          *)
(***************************************************************************)
RegionsOf(d) ==
    CASE d = "home" -> {MARKERS_HOME.hero, MARKERS_HOME.featured,
                        MARKERS_HOME.sketch_preview}
      [] d = "gallery" -> {MARKERS_GALLERY.gallery_finished}
      [] d = "sketchbook" -> {MARKERS_SKETCHBOOK.gallery_sketchbook}

MarkersFound(text, m) == MatchStarts(text, m[1], m[2]) # {}

\* the positions of main after the update of document d
PastDoc(d) ==
    CASE d = "home" -> {"gallery", "gallery_write", "sketchbook_doc",
                        "sketchbook_write", "done"}
      [] d = "gallery" -> {"sketchbook_doc", "sketchbook_write", "done"}
      [] d = "sketchbook" -> {"done"}

\* C6: if the markers of a region of a target document are not found in it,
\* assembly aborts with a fatal error at that document and the document is
\* not written: it keeps its content of before the run, and a document with
\* only some regions replaced is never written.
C6_MarkerMissingNoWrite ==
    \A d \in DocNames :
        /\ (/\ site_start.docs[d].exists
            /\ \E m \in RegionsOf(d) : ~MarkersFound(site_start.docs[d].text, m))
              => (docs[d] = site_start.docs[d] /\ site_pc \notin PastDoc(d))
        /\ (site_pc = "aborted" /\ site_exit.err = "ValueError" /\ site_exit.doc = d)
              => (docs[d] = site_start.docs[d] /\ site_exit.code # 0)

\* the hero region of the home page was found and replaced in memory, the
\* featured region was not found, and main aborted
C6_Witness ==
    /\ site_pc = "aborted"
    /\ site_exit.err = "ValueError"
    /\ site_exit.doc = "home"
    /\ MarkersFound(site_start.docs["home"].text, MARKERS_HOME.hero)
    /\ ~MarkersFound(site_start.docs["home"].text, MARKERS_HOME.featured)
    /\ backups["home"] = site_start.docs["home"]

\* C7: the backup of a target document holds its content of before the run
\* before the document is written: at every point of a run, a document that
\* differs from its start-of-run content has a backup equal to that content.
C7_BackupBeforeWrite ==
    \A d \in DocNames :
        docs[d] # site_start.docs[d] => backups[d] = site_start.docs[d]

\* the home page was rewritten over an older backup, the gallery page not yet
C7_Witness ==
    /\ docs["home"] # site_start.docs["home"]
    /\ site_start.backups["home"] # site_start.docs["home"]
    /\ site_pc = "gallery_write"

\* C9: main aborts with a non-zero exit when the finished folder or the home
\* page is missing, in the first case before anything is deleted, copied or
\* written; a missing sketchbook folder, gallery page or sketchbook page is
\* skipped and the remaining updates are still made.
C9_Unchanged ==
    /\ local = site_start.local
    /\ docs = site_start.docs
    /\ backups = site_start.backups

C9_MissingParts ==
    /\ [](~nas_exists["finished"] =>
            /\ site_pc \in {"start", "aborted"}
            /\ C9_Unchanged
            /\ site_pc = "aborted" => site_exit.code # 0)
    /\ [](~site_start.docs["home"].exists =>
            /\ site_pc \notin {"home_write"} \cup PastDoc("home")
            /\ docs = site_start.docs /\ backups = site_start.backups
            /\ (site_pc = "aborted" /\ site_exit.doc = "home") => site_exit.code # 0)
    /\ [](site_pc = "done" =>
            /\ site_exit.code = 0
            /\ \A d \in DocNames :
                  IF site_start.docs[d].exists
                  THEN docs[d].exists /\ backups[d] = site_start.docs[d]
                  ELSE docs[d] = NoDoc /\ backups[d] = site_start.backups[d])
    /\ [][/\ (site_pc = "sketchbook" /\ ~nas_exists["sketchbook"]) =>
                (/\ site_pc' = "home"
                 /\ local' = local
                 /\ site_mem'.copied_sketchbook = <<>>)
          /\ (site_pc = "gallery" /\ ~docs["gallery"].exists) =>
                (site_pc' = "sketchbook_doc" /\ docs' = docs /\ backups' = backups)
          /\ (site_pc = "sketchbook_doc" /\ ~docs["sketchbook"].exists) =>
                (site_pc' = "done" /\ docs' = docs /\ backups' = backups)]_vars

\* main finished with the sketchbook folder and the gallery page missing,
\* having rewritten the home page and the sketchbook page
C9_Witness ==
    /\ site_pc = "done"
    /\ ~nas_exists["sketchbook"]
    /\ ~site_start.docs["gallery"].exists
    /\ docs["home"] # site_start.docs["home"]
    /\ docs["sketchbook"] # site_start.docs["sketchbook"]

DataAttrNames ==
    {" data-slug=\"", " data-kind=\"", " data-tags=\"", " data-characters=\""}

Max(S) == CHOOSE x \in S : \A y \in S : y <= x

\* the element of fragment frag, from its opening to its closing literal,
\* that names file f
ElementOf(frag, open, close, f) ==
    LET p == Min({k \in 1..Len(frag) : frag[k] = f})
        lo == Max({k \in 1..p : frag[k] = open})
        hi == Min({k \in p..Len(frag) : frag[k] = close})
    IN  SubSeq(frag, lo, hi)

ElementsOf(frag, open, close, kind) ==
    {[file |-> f, kind |-> kind, elem |-> ElementOf(frag, open, close, f)] :
        f \in {frag[k] : k \in 1..Len(frag)} \cap AllImages}

\* every element generated for an image, with the image's file name
GeneratedElements ==
    ElementsOf(site_mem.hero_html, HeroOpen, HeroClose, "finished")
    \cup ElementsOf(site_mem.featured_html, FeaturedOpen, CardClose, "finished")
    \cup ElementsOf(site_mem.gallery_finished_html, GalleryOpen, CardClose, "finished")
    \cup ElementsOf(site_mem.gallery_sketchbook_html, GalleryOpen, CardClose, "sketchbook")
    \cup ElementsOf(site_mem.home_sketches_html, SketchOpen, SketchClose, "sketchbook")

DataAttrsOf(elem) == SelectSeq(elem, LAMBDA tok : tok \in DataAttrNames)

\* C10 as claimed: the element generated for an asset with no metadata
\* sidecar carries no data-* attribute at all.
C10_NoAttributes ==
    \A e \in GeneratedElements :
        json[ImageStem(e.file)].state = "absent" => DataAttrsOf(e.elem) = <<>>

\* C10 as amended: the element generated for an asset with no metadata
\* sidecar carries exactly one data-* attribute, data-kind with the kind of
\* its collection, and no data-slug, data-tags or data-characters.
C10_OnlyKindAttribute ==
    \A e \in GeneratedElements :
        json[ImageStem(e.file)].state = "absent" =>
            /\ DataAttrsOf(e.elem) = <<" data-kind=\"">>
            /\ \E k \in 1..(Len(e.elem) - 2) :
                  /\ e.elem[k] = " data-kind=\""
                  /\ e.elem[k + 1] = e.kind
                  /\ e.elem[k + 2] = "\""

\* a hero image, a featured card, a gallery card and a sketch cell were
\* generated for assets that have no metadata sidecar
C10_Witness ==
    /\ site_pc = "home"
    /\ \A s \in {"a_b", "c", "s"} : json[s].state = "absent"
    /\ Cardinality(GeneratedElements) >= 4

(***************************************************************************)
(* Claims about the two stage scripts                                      *)
(***************************************************************************)
\* the file holds at least one byte (a file that does not decode holds some)
NonEmptyFile(f) == f.state = "undecodable" \/ (f.state = "text" /\ f.text # <<>>)

\* the images of the run attempted so far that belong to a stem
TriedOf(stem) == {k \in 1..Len(tried) : ImageStem(tried[k]) = stem}

\* C1: during and after a run of the Caption Stage, every caption sidecar
\* that held at least one byte when the run started is byte-identical to
\* what it was, and no image of its stem was selected.
C1_NonEmptyKept ==
    stage = "caption" =>
        \A s \in Stems :
            NonEmptyFile(run_start.txt[s]) =>
                txt[s] = run_start.txt[s] /\ TriedOf(s) = {}

\* C1, as the code reads "non-empty": a sidecar that decodes as UTF-8 and is
\* not empty after strip() is neither selected nor written.
C1_CaptionKept ==
    stage = "caption" =>
        \A s \in Stems :
            HasCaption(run_start.txt[s]) =>
                txt[s] = run_start.txt[s] /\ TriedOf(s) = {}

Least(a, b) == IF a < b THEN a ELSE b

\* the assets of a collection that were pending when the run started
PendingAtStart(kind) ==
    {img \in nas_images[kind] :
        IF stage = "caption"
        THEN ~HasCaption(run_start.txt[ImageStem(img)])
        ELSE /\ HasCaption(run_start.txt[ImageStem(img)])
             /\ run_start.json[ImageStem(img)].state = "absent"}

\* how many assets of a collection the run has attempted
AttemptedIn(kind) == Cardinality({k \in 1..Len(tried) : ImageKind(tried[k]) = kind})

\* C3: in a stage run with initial budget B the budget is never negative, at
\* most B assets are attempted, finished assets are attempted before
\* sketchbook assets, min(B, pending finished) finished assets are attempted
\* and then min(B - that, pending sketchbook) sketchbook assets, and the run
\* ends with B minus the number of attempts, failed attempts included.
C3_BudgetSplit ==
    stage # "idle" =>
        LET B == run_start.B
            first == Least(B, Cardinality(PendingAtStart("finished")))
            second == Least(B - first, Cardinality(PendingAtStart("sketchbook")))
        IN  /\ budget >= 0
            /\ Len(tried) <= B
            /\ \A i, j \in 1..Len(tried) :
                  i < j => ~(ImageKind(tried[i]) = "sketchbook"
                             /\ ImageKind(tried[j]) = "finished")
            /\ AttemptedIn("finished") <= first
            /\ AttemptedIn("sketchbook") <= second
            /\ folder # "finished" => AttemptedIn("finished") = first
            /\ stage_pc = "main" => budget = B - Len(tried)
            /\ stage_pc = "end" =>
                  /\ AttemptedIn("sketchbook") = second
                  /\ budget = B - Len(tried)

\* B = 3 with 2 finished and 2 sketchbook assets pending: 2 then 1 are
\* attempted, one attempt failed, and the run ends with 0
C3_Witness ==
    /\ stage_pc = "end"
    /\ run_start.B = 3
    /\ Cardinality(PendingAtStart("finished")) = 2
    /\ Cardinality(PendingAtStart("sketchbook")) = 2
    /\ AttemptedIn("finished") = 2
    /\ AttemptedIn("sketchbook") = 1
    /\ failed # {}
    /\ budget = 0

Greater(a, b) == IF a > b THEN a ELSE b

\* C4: in one pipeline run (caption stage, then metadata stage) the service
\* calls of both stages together never exceed the one initial budget value
\* (the larger of the two values the scripts start from).
C4_SharedBudget ==
    pipe.phase \in {"tags", "done"} =>
        pipe.caption_calls + calls <= Greater(pipe.caption_B, pipe.tags_B)

\* C4, amended: each stage script counts down from its own initial budget,
\* shared by its two collections only; the calls of a stage never exceed that
\* stage's initial budget, and the calls of a pipeline run never exceed the
\* sum of the two.
C4_BudgetPerStage ==
    /\ pipe.phase = "caption" => calls <= pipe.caption_B
    /\ pipe.phase \in {"between", "tags", "done"} =>
          pipe.caption_calls <= pipe.caption_B
    /\ pipe.phase \in {"tags", "done"} =>
          /\ calls <= pipe.tags_B
          /\ pipe.caption_calls + calls <= pipe.caption_B + pipe.tags_B

\* a pipeline run is over in which each stage used all of its own budget and
\* the two together made more calls than either budget allows
C4_Witness ==
    /\ pipe.phase = "done"
    /\ pipe.caption_B > 0
    /\ pipe.caption_calls = pipe.caption_B
    /\ pipe.tags_B > 0
    /\ calls = pipe.tags_B
    /\ pipe.caption_calls + calls > Greater(pipe.caption_B, pipe.tags_B)

\* C8: in both stages a failed attempt writes no sidecar and leaves the loop
\* running at the next asset; the loop is left only when every asset of the
\* batch was attempted, in order; and no asset is attempted twice in a run.
C8_FailureDoesNotAbort ==
    /\ [](stage_pc = "loop" =>
            /\ idx <= Len(to_process)
            /\ idx <= Len(tried)
            /\ \A k \in 1..idx : tried[Len(tried) - idx + k] = to_process[k])
    /\ [](\A i, j \in 1..Len(tried) : i # j => tried[i] # tried[j])
    /\ [][(Len(tried') = Len(tried) + 1 /\ last' # "ok") =>
            /\ tried'[Len(tried')] \in failed'
            /\ txt' = txt
            /\ json' = json
            /\ stage_pc' = "loop"
            /\ to_process' = to_process
            /\ idx' = idx + 1]_vars
    /\ [][(stage_pc = "loop" /\ stage_pc' # "loop") =>
            /\ idx = Len(to_process)
            /\ Len(tried) >= Len(to_process)
            /\ \A k \in 1..Len(to_process) :
                  tried[Len(tried) - Len(to_process) + k] = to_process[k]]_vars

\* a metadata run in which the first asset of a batch failed, the next asset
\* of the same collection got its sidecar, and the failed one has none
C8_Witness ==
    /\ stage = "tags"
    /\ Len(tried) >= 2
    /\ tried[1] \in failed
    /\ tried[2] \notin failed
    /\ ImageKind(tried[1]) = ImageKind(tried[2])
    /\ json[ImageStem(tried[1])].state = "absent"
    /\ json[ImageStem(tried[2])].state = "dict"

(***************************************************************************)
(* Claims about the pure functions                                         *)
(***************************************************************************)
\* the positions of the tokens of a text that open a cell of the sketch grid
CellStarts(html) ==
    {k \in 1..Len(html) : html[k] \in {SketchOpen, SketchPlaceholder}}

RECURSIVE Ascending(_)
\* the members of a finite set of numbers, smallest first
Ascending(S) == IF S = {} THEN <<>> ELSE <<Min(S)>> \o Ascending(S \ {Min(S)})

\* the file name a cell that starts at position k shows: the first token
\* after k that is an image file name
CellImage(html, k) ==
    html[Min({j \in k..Len(html) : html[j] \in AllImages})]

\* C11: for a list of n sketches the preview grid holds exactly 4 cells; the
\* first min(n, 4) show the first min(n, 4) sketches of the list, in the
\* list's order, and the remaining cells are the placeholder cell.
C11_FourCells ==
    (fn_in.fn = "build_home_sketches_html" /\ fn_out.done) =>
        LET html == fn_out.value
            starts == Ascending(CellStarts(html))
            n == Len(fn_in.items)
            real == Least(n, 4)
        IN  /\ Len(starts) = 4
            /\ \A k \in 1..4 :
                  IF k <= real
                  THEN /\ html[starts[k]] = SketchOpen
                       /\ CellImage(html, starts[k]) = fn_in.items[k].name
                       /\ k < 4 =>
                             \A j \in starts[k]..starts[k + 1] :
                                html[j] \in AllImages =>
                                   html[j] = fn_in.items[k].name
                  ELSE html[starts[k]] = SketchPlaceholder

\* the grid was built for more than four sketches, and for two
C11_Witness ==
    /\ fn_in.fn = "build_home_sketches_html"
    /\ fn_out.done
    /\ Len(fn_in.items) = 5
    /\ fn_in.items[1].name = "t.jpg"
    /\ fn_in.items[4].name = "s.jpg"
    /\ fn_in.items[5].name = "t.jpg"

\* an entry of a raw list that is a string and not blank
ValidEntry(raw, k) == raw[k].is_str /\ Strip(raw[k].text) # <<>>

\* the positions of a raw list that hold the first occurrence of a valid
\* entry, entries compared after strip() and lower()
FirstOccurrences(raw) ==
    {k \in 1..Len(raw) :
        /\ ValidEntry(raw, k)
        /\ \A j \in 1..(k - 1) :
              ValidEntry(raw, j) =>
                 LowerText(Strip(raw[j].text)) # LowerText(Strip(raw[k].text))}

\* a cleaned list: no blank entry, no two entries equal after lower(), and
\* the entries are the first occurrences of the raw list, as written there
\* (stripped), in the raw list's order, the first "most" of them
CleanedFrom(out, raw, most) ==
    LET firsts == Ascending(FirstOccurrences(raw))
    IN  /\ Len(out) = Least(most, Len(firsts))
        /\ \A i \in 1..Len(out) : out[i] # <<>> /\ out[i] = Strip(raw[firsts[i]].text)
        /\ \A i, j \in 1..Len(out) : i # j => LowerText(out[i]) # LowerText(out[j])

\* C12: the tags returned for a raw list hold no blank and no non-string
\* entry, no two entries equal case-insensitively, at most max_tags entries,
\* and are the first occurrences in their original casing and order; the
\* characters are cleaned the same way without a cap, and are empty when the
\* field is no list.
C12_TagsDeduplicated ==
    (fn_in.fn = "call_openai_tags_and_characters" /\ fn_out.done) =>
        /\ Len(fn_out.value.tags) <= fn_in.max_tags
        /\ CleanedFrom(fn_out.value.tags, fn_in.raw, fn_in.max_tags)
        /\ IF fn_in.chars_is_list
           THEN CleanedFrom(fn_out.value.characters, fn_in.raw, Len(fn_in.raw))
           ELSE fn_out.value.characters = <<>>

\* a raw list with the same tag in two casings around a non-string entry was
\* cleaned: the first casing is kept, stripped
C12_Witness ==
    /\ fn_in.fn = "call_openai_tags_and_characters"
    /\ fn_out.done
    /\ fn_in.raw = <<Str(<<"F", " ">>), NonStr, Str(<<"f">>)>>
    /\ fn_in.max_tags = 10
    /\ fn_in.chars_is_list
    /\ fn_out.value.tags = << <<"F">> >>

\* C13: make_slug(title) holds only a-z, 0-9 and hyphens, neither starts nor
\* ends with a hyphen and has no two hyphens in a row; its characters other
\* than hyphens are the characters a-z, 0-9 of the lowercased title, in
\* order, with one hyphen between two of them exactly where the title has a
\* run of other characters between them; make_slug of the result is the
\* result; and "Young Hellboy Illustration!" gives
\* "young-hellboy-illustration".
C13_SlugShape ==
    (fn_in.fn = "make_slug" /\ fn_out.done) =>
        LET low == LowerText(fn_in.title)
            out == fn_out.value.slug
            kept == Ascending({k \in 1..Len(low) : IsSlugChar(low[k])})
            plain == Ascending({k \in 1..Len(out) : out[k] # "-"})
        IN  /\ \A k \in 1..Len(out) : IsSlugChar(out[k]) \/ out[k] = "-"
            /\ out # <<>> => out[1] # "-" /\ out[Len(out)] # "-"
            /\ \A k \in 1..(Len(out) - 1) : ~(out[k] = "-" /\ out[k + 1] = "-")
            /\ Len(plain) = Len(kept)
            /\ \A i \in 1..Len(kept) : out[plain[i]] = low[kept[i]]
            /\ \A i \in 2..Len(kept) :
                  plain[i] - plain[i - 1] =
                     IF kept[i] - kept[i - 1] > 1 THEN 2 ELSE 1
            /\ fn_out.value.again = out
            /\ fn_in.title = ExampleTitle =>
                  out = <<"y", "o", "u", "n", "g", "-", "h", "e", "l", "l", "b", "o",
                          "y", "-", "i", "l", "l", "u", "s", "t", "r", "a", "t", "i",
                          "o", "n">>

\* a title with a hyphen in front and a blank inside was slugged
C13_Witness ==
    /\ fn_in.fn = "make_slug"
    /\ fn_out.done
    /\ fn_in.title = <<"-", "A", " ", "1">>
    /\ fn_out.value.slug = <<"a", "-", "1">>

(***************************************************************************)
(* More claims about the two stage scripts                                 *)
(***************************************************************************)
\* the assets of a collection attempted in this run, in the order attempted
AttemptedOf(kind) == SelectSeq(tried, LAMBDA img : ImageKind(img) = kind)

\* the members of a sequence
Range(q) == {q[k] : k \in 1..Len(q)}

\* C14: in either stage the assets attempted in a collection were pending
\* when the run started and are attempted from newer to older; the batch of
\* the collection holds min(budget, pending) assets; and every pending asset
\* left out of the batch is no newer than any asset of the batch.
C14_NewestFirst ==
    stage # "idle" =>
        \A kind \in Kinds :
            LET att == AttemptedOf(kind)
                pend == PendingAtStart(kind)
            IN  /\ Range(att) \subseteq pend
                /\ \A i, j \in 1..Len(att) : i < j => Mtime(att[i]) >= Mtime(att[j])
                /\ (folder = kind /\ stage_pc = "loop") =>
                      /\ att = SubSeq(to_process, 1, idx)
                      /\ Len(to_process) = Least(budget, Cardinality(pend))
                      /\ \A i, j \in 1..Len(to_process) :
                            i < j => Mtime(to_process[i]) >= Mtime(to_process[j])
                      /\ \A skipped \in pend \ Range(to_process) :
                            \A img \in Range(to_process) : Mtime(skipped) <= Mtime(img)
                /\ (stage_pc = "end" \/ (kind = "finished" /\ folder = "sketchbook")) =>
                      \A skipped \in pend \ Range(att) :
                         \A img \in Range(att) : Mtime(skipped) <= Mtime(img)

\* a run with budget 2 found three finished assets pending, attempted the two
\* newest in order and left the oldest
C14_Witness ==
    /\ stage_pc = "end"
    /\ run_start.B = 2
    /\ PendingAtStart("finished") = {"a_b.jpg", "a_b.png", "c.jpg"}
    /\ tried = <<"a_b.jpg", "a_b.png">>

(***************************************************************************)
(* More claims about replace_section                                       *)
(***************************************************************************)
\* the start..end span occurs more than once: a second start marker with an
\* end marker after it lies behind the end of the first span
RsManySpans(d) ==
    \E i1, i2 \in Occurrences(d, RsStart) : \E e1, e2 \in Occurrences(d, RsEnd) :
        i1 < e1 /\ e1 < i2 /\ i2 < e2

\* C15 as claimed: a document in which the span occurs more than once is
\* rejected like a document without the span.
C15_ManySpansRejected ==
    (RsCalled /\ RsManySpans(RsDoc(rs_in))) => ~rs_out.ok

\* C15 as amended: a document that holds the span, once or more often, is
\* not rejected: replace_section (new content without a backslash) rewrites
\* the first span only, from the first start marker to the first end marker
\* after it, and leaves the rest of the document, later spans included, as
\* it was.
C15_FirstSpanOnly ==
    (RsCalled /\ \A k \in 1..Len(rs_in.new) : rs_in.new[k] # BS) =>
        LET d == RsDoc(rs_in)
            i == Min(Occurrences(d, RsStart))
            e == Min({j \in Occurrences(d, RsEnd) : j > i})
        IN  /\ rs_out.ok
            /\ rs_out.html = SubSeq(d, 1, i - 1) \o RsStart \o <<LF>> \o rs_in.new
                             \o <<LF>> \o RsEnd \o SubSeq(d, e + 1, Len(d))

\* a document with the region twice was rewritten: the first region holds
\* the new content and the second is as it was
C15_Witness ==
    /\ RsCalled
    /\ rs_out.ok
    /\ rs_in.prefix = <<>>
    /\ rs_in.old = <<"x">>
    /\ rs_in.suffix = RsSecondRegion
    /\ rs_in.new = <<"n">>
    /\ rs_out.html = RsStart \o <<LF, "n", LF>> \o RsEnd \o RsSecondRegion

(***************************************************************************)
(* Claims about the Caption Stage next to an external writer               *)
(***************************************************************************)
\* C16: a caption sidecar that an external writer created after the listing
\* pass is never overwritten by the Caption Stage: no step changes a sidecar
\* that holds the external writer's caption.
C16_ExternalCaptionKept ==
    [][\A s \in Stems :
          txt[s] = TextFile(ExternalCaption) => txt'[s] = txt[s]]_vars

(***************************************************************************)
(* Claims about the Metadata Enrichment Stage                              *)
(***************************************************************************)
\* no asset of the collection had a caption when the run started
NoCaptioned(kind) ==
    \A img \in nas_images[kind] : ~HasCaption(run_start.txt[ImageStem(img)])

\* C17: while the Metadata Enrichment Stage runs no caption sidecar, image or
\* folder changes; a metadata sidecar is written only by that stage and only
\* for an asset whose caption sidecar was non-empty when listed; and a
\* collection without captioned assets gets no attempt, no service call and
\* no write, and leaves the budget as it was.
C17_MetadataFrame ==
    /\ [][stage = "tags" =>
            /\ txt' = txt
            /\ nas_images' = nas_images
            /\ nas_exists' = nas_exists]_vars
    /\ [][\A s \in Stems :
            json'[s] # json[s] =>
                /\ stage = "tags"
                /\ HasCaption(txt[s])
                /\ NonEmptyFile(run_start.txt[s])
                /\ calls' = calls + 1]_vars
    /\ [](stage = "tags" =>
            /\ \A kind \in Kinds :
                  NoCaptioned(kind) =>
                     /\ AttemptedOf(kind) = <<>>
                     /\ \A s \in Stems :
                           StemKind(s) = kind => json[s] = run_start.json[s]
            /\ (NoCaptioned("finished") /\ folder # "finished") =>
                  (calls = 0 \/ AttemptedOf("sketchbook") # <<>>)
            /\ (NoCaptioned("finished") /\ folder = "sketchbook"
                /\ stage_pc = "main") => budget = run_start.B
            /\ (NoCaptioned("sketchbook") /\ stage_pc = "end") =>
                  budget = run_start.B - Len(AttemptedOf("finished"))
            /\ (NoCaptioned("finished") /\ NoCaptioned("sketchbook")) =>
                  calls = 0)

\* a metadata run is over that found finished assets but none with a caption
\* (one sidecar holds blanks only) and wrote a sidecar for a captioned sketch
C17_Witness ==
    /\ stage = "tags"
    /\ stage_pc = "end"
    /\ nas_exists["finished"]
    /\ NoCaptioned("finished")
    /\ txt["a_b"] = TextFile(BlankCaption)
    /\ run_start.B > 0
    /\ budget = run_start.B - 1
    /\ json["t"].state = "dict"
    /\ run_start.json["t"].state = "absent"

(***************************************************************************)
(* Claims about repeated Caption Stage runs                                *)
(***************************************************************************)
\* the image is on the share and its sidecar holds no caption
Uncaptioned(img) ==
    /\ img \in nas_images[ImageKind(img)]
    /\ ~HasCaption(txt[ImageStem(img)])

\* the images without a caption the service fails on
DownPending == {img \in live.down : Uncaptioned(img)}

\* C18: over repeated runs with a positive budget, every uncaptioned image
\* the service answers for is eventually captioned, whatever the images the
\* service keeps failing on.
C18_EventuallyCaptioned ==
    \A img \in AllImages :
        (live.B > 0 /\ Uncaptioned(img) /\ img \notin live.down)
            ~> HasCaption(txt[ImageStem(img)])

\* the same, for the runs whose budget is larger than the number of
\* uncaptioned images the service keeps failing on
LiveWithinBudget ==
    \A img \in AllImages :
        (Uncaptioned(img) /\ img \notin live.down
            /\ Cardinality(DownPending) < live.B)
            ~> HasCaption(txt[ImageStem(img)])

(***************************************************************************)
(* Claims about the caption sidecar's format across the stages             *)
(***************************************************************************)
\* the sidecar was written and read back by both readers
RoundTripDone == fn_in.fn = "title_round_trip" /\ fn_out.done

\* both readers give back what write_caption_file was given
RoundTripExact ==
    /\ fn_out.value.parsed.title = fn_out.value.title
    /\ fn_out.value.parsed.caption = fn_out.value.caption
    /\ fn_out.value.site.title = escape_html(fn_out.value.title)
    /\ fn_out.value.site.body = escape_html(fn_out.value.text)

\* C19: for every non-empty title and caption the Caption Stage writes as
\* "title <em dash> caption", parse_caption_file recovers exactly that title
\* and caption, and _derive_title_and_body yields the HTML-escaped title
\* with the (escaped) full sidecar text as body.
C19_TitleRoundTrip ==
    RoundTripDone =>
        /\ fn_out.value.title # <<>>
        /\ fn_out.value.caption # <<>>
        /\ RoundTripExact

\* the same, for the titles that hold no em dash
RoundTripWithoutDash ==
    (RoundTripDone /\ EMDASH \notin Range(fn_out.value.title)) =>
        /\ fn_out.value.title # <<>>
        /\ fn_out.value.caption # <<>>
        /\ RoundTripExact

\* a title with an escaped character and a caption with an em dash came back
RoundTripWitness ==
    /\ RoundTripDone
    /\ fn_out.value.title = <<"T", "&">>
    /\ fn_out.value.caption = <<"c", " ", EMDASH, " ", "d">>
    /\ fn_out.value.site.title = <<"T", "&amp;">>

====
